---- MODULE Spec2Model ----
(***************************************************************************)
(* VideoCut: the render pipeline of components/video-creator.tsx           *)
(* (frame scheduler, capture pipeline, audio remux) and the trim pipeline  *)
(* of components/video-editor.tsx, as one state machine.                   *)
(*                                                                         *)
(* Browser objects the components drive (MediaRecorder, the animation      *)
(* frame queue, the video element, the FFmpeg runtime) are modelled by the *)
(* events they deliver to the handlers the code installs. MediaRecorder    *)
(* follows the W3C MediaStream Recording standard: stop() on an inactive   *)
(* recorder does nothing, and a failing recorder becomes inactive and      *)
(* fires error, dataavailable and stop.                                    *)
(*                                                                         *)
(* VideoWorkspace shows one of the two components. VideoCreator is         *)
(* modelled with any parent: onVideoCreate may leave it mounted, so that   *)
(* a delivered render can be followed by another one.                      *)
(***************************************************************************)
EXTENDS Integers, Sequences, FiniteSets, TLC

VARIABLES
  mounted,         \* which component the workspace shows
  lastCallEmpty,   \* the last call of renderVideo found no images (l.65)
  isRendering,     \* VideoCreator state (l.29)
  renderProgress,  \* VideoCreator state (l.30), a fraction num/den of percent
  jobs,            \* the closures of renderVideo calls, by slot
  rafQueue,        \* requestAnimationFrame callbacks, in registration order
  recorderErrors,  \* encoder errors injected so far
  video,           \* the video element of VideoEditor (videoRef.current)
  liveUrls,        \* object URLs: [made, live], the ids created and those not revoked
  trimDialogOpen,  \* VideoEditor state (l.32)
  trimStart,       \* VideoEditor state (l.33)
  trimEnd,         \* VideoEditor state (l.34)
  isTrimming,      \* VideoEditor state (l.35)
  trimProgress,    \* VideoEditor state (l.36)
  duration,        \* VideoEditor state (l.29), as [finite, value]
  isPlaying,       \* VideoEditor state (l.27)
  trims            \* the closures of handleTrimConfirm calls, in call order

creatorVars == <<isRendering, renderProgress, jobs>>
editorVars == <<video, liveUrls, trimDialogOpen, trimStart, trimEnd, isTrimming,
                trimProgress, duration, isPlaying, trims>>
vars == <<mounted, lastCallEmpty, creatorVars, rafQueue, recorderErrors, editorVars>>

(***************************************************************************)
(* Bounds of the model.                                                    *)
(***************************************************************************)
MaxImages == 1
MaxJobs == 2
MaxChunks == 2
MaxRecorderErrors == 1
MaxTime == 2
MaxTrims == 1
MaxStopCalls == 2
MaxScheduleImages == 3

(***************************************************************************)
(* Program constants of renderVideo.                                       *)
(***************************************************************************)
fps == 30
imageDisplayTime == 3000
transitionTime == 500

\* Times are kept in thirds of a millisecond, so that 1000 / fps is whole.
frameDuration == (3 * 1000) \div fps
cycleTime == 3 * (imageDisplayTime + transitionTime)

Slots == 1..MaxJobs
AudioKinds == {"none", "audio", "other"}
Transitions == {"fade", "slide", "verticalSlide", "zoom", "rotate", "flip"}
BlobSizes == {0, 1}
ProgressEvents == {0, 5, 1000}

Min(a, b) == IF a < b THEN a ELSE b

Percent(num, den) == [num |-> num, den |-> den]
Zero == Percent(0, 1)

(***************************************************************************)
(* The FFmpeg runtime instance of one combineVideoWithAudio call.          *)
(*   pc        the runtime call the adapter is awaiting ("none": no call   *)
(*             was made, "closed": the call has resolved or rejected)      *)
(*   ops       the runtime operations invoked so far, in order             *)
(*   listening whether the progress listener is registered                 *)
(*   forwarded the progress values passed to setRenderProgress, in order   *)
(*             (only the last two are kept)                                *)
(***************************************************************************)
NoFFmpeg == [pc |-> "none", ops |-> <<>>, listening |-> FALSE, forwarded |-> <<>>]

NoArtifact == [made |-> FALSE]

(***************************************************************************)
(* The closure of one renderVideo call.                                    *)
(*   pc          "free" | "loading" (awaiting Promise.all) | "started"     *)
(*               (mediaRecorder.start() returned) | "caught" (l.235)       *)
(*   images, audio, transition   the state the call closed over            *)
(*   loaded      images whose loadImage promise has resolved               *)
(*   canvas, stream              resources created (l.71, l.80)            *)
(*   recorder    "none" | "recording" | "inactive"                         *)
(*   stopQueued  the recorder's task firing dataavailable and stop is      *)
(*               queued                                                    *)
(*   stopCalls   calls of mediaRecorder.stop()                             *)
(*   blobs       sizes of the blobs delivered to ondataavailable, in order *)
(*   chunks      the chunks array: indices into blobs                      *)
(*   blob        the chunks that new Blob(chunks) of onstop put together   *)
(*   currentFrame, alpha (ctx.globalAlpha, in 1/AlphaOne)                  *)
(*   frames      frame indices drawn, as <<last index, count>>             *)
(*   painted     draw operations of the last tick                          *)
(*   onstop      "none" | "remux" (awaiting combineVideoWithAudio) | "done"*)
(*   finalized   runs of mediaRecorder.onstop                              *)
(*   created     calls of onVideoCreate, artifact what it was called with  *)
(*   toasts      calls of toast.error                                      *)
(***************************************************************************)
transitionFrames == (3 * transitionTime) \div frameDuration
AlphaOne == transitionFrames * transitionFrames * transitionFrames

FreeJob ==
  [pc |-> "free", images |-> 0, loaded |-> 0, audio |-> "none", transition |-> "fade",
   canvas |-> FALSE, stream |-> FALSE, recorder |-> "none",
   stopQueued |-> FALSE, stopCalls |-> 0, errored |-> FALSE,
   blobs |-> <<>>, chunks |-> <<>>, blob |-> <<>>,
   currentFrame |-> 0, alpha |-> AlphaOne, frames |-> <<-1, 0>>, painted |-> <<>>,
   onstop |-> "none", finalized |-> 0, created |-> 0, artifact |-> NoArtifact,
   toasts |-> 0, ff |-> NoFFmpeg]

\* No callback of the job can run any more.
Finished(j) ==
  \/ j.pc = "caught"
  \/ /\ j.pc = "started"
     /\ j.recorder = "inactive"
     /\ ~j.stopQueued
     /\ j.onstop = "done"

Range(q) == {q[i] : i \in 1..Len(q)}

(***************************************************************************)
(* Frame scheduler and transition engine (renderFrame, l.132-230).         *)
(***************************************************************************)
\* A loop that stops only once currentFrame exceeds totalFrames.
AtTotalFramesExceeded(f, n) == f * frameDuration > n * cycleTime

\* currentFrame >= totalFrames, totalFrames = images.length * (cycleTime / frameDuration).
\* In IEEE doubles the quotient is 104.99999999999999: the integers at or above
\* it are those at or above 105, as in exact arithmetic.
AtTotalFrames(f, n) == f * frameDuration >= n * cycleTime

\* A cycle index rounded to the nearest cycle instead of rounded down.
currentCycleRounded(f) == (2 * f * frameDuration + cycleTime) \div (2 * cycleTime)

\* Math.floor(currentTime / cycleTime) and currentTime % cycleTime (l.138-141)
currentCycle(f) == (f * frameDuration) \div cycleTime
timeInCycle(f) == (f * frameDuration) % cycleTime

\* easeInOutCubic(k / transitionFrames), in 1/AlphaOne
easeInOutCubic(k) ==
  IF 2 * k < transitionFrames
  THEN 4 * k * k * k
  ELSE AlphaOne - 4 * (transitionFrames - k) * (transitionFrames - k) * (transitionFrames - k)

\* A progress counted from the end of each frame's interval.
rawProgressAtFrameEnd(f) == (timeInCycle(f) - 3 * imageDisplayTime) \div frameDuration + 1

\* (timeInCycle - imageDisplayTime) / transitionTime of frame f (l.160), in
\* 1/transitionFrames: the quotient is a whole number of frames.
rawProgress(f) == (timeInCycle(f) - 3 * imageDisplayTime) \div frameDuration

\* transitionProgress of frame f (l.160)
transitionProgress(f) == easeInOutCubic(rawProgress(f))

\* One canvas operation: fillRect (img = -1) or drawImageCovered of image img,
\* at the context's globalAlpha, under the transform `via` with parameter `at`.
Fill(a) == [img |-> -1, alpha |-> a, via |-> "plain", at |-> 0]
Draw(i, a, v, p) == [img |-> i, alpha |-> a, via |-> v, at |-> p]

\* A flip that turns to the next image from the first transition frame on.
flipScaleNegativeAlways(p) == p >= 0

\* flipScale < 0 for flipScale = Math.cos(Math.PI * transitionProgress)
\* (l.214-216): the progress is above one half.
flipScaleNegative(p) == 2 * p > AlphaOne

\* The canvas operations of frame f and the globalAlpha they leave (l.150-225).
Paint(f, n, kind, a0) ==
  LET A == currentCycle(f) % n
      B == (currentCycle(f) + 1) % n
      p == transitionProgress(f)
  IN  IF timeInCycle(f) < 3 * imageDisplayTime
      THEN [alpha |-> AlphaOne,
            painted |-> <<Fill(a0), Draw(A, AlphaOne, "plain", 0)>>]
      ELSE CASE kind = "fade" ->
                  [alpha |-> p,
                   painted |-> <<Fill(a0), Draw(A, a0, "plain", 0), Draw(B, p, "plain", 0)>>]
             [] kind \in {"slide", "verticalSlide"} ->
                  [alpha |-> a0,
                   painted |-> <<Fill(a0), Draw(A, a0, "plain", 0), Draw(B, a0, kind, p)>>]
             [] kind \in {"zoom", "rotate"} ->
                  [alpha |-> a0,
                   painted |-> <<Fill(a0), Draw(A, a0, "plain", 0), Draw(B, p, kind, p)>>]
             [] kind = "flip" ->
                  [alpha |-> a0,
                   painted |-> IF flipScaleNegative(p)
                               THEN <<Fill(a0), Draw(B, a0, "mirror", p)>>
                               ELSE <<Fill(a0), Draw(A, a0, "flip", p)>>]
             [] OTHER -> [alpha |-> a0, painted |-> <<Fill(a0)>>]

\* A recorder whose stop() queues the stop task whatever its state.
stopAlwaysQueues(j) ==
  [j EXCEPT !.stopCalls = @ + 1,
            !.recorder = IF @ = "recording" THEN "inactive" ELSE @,
            !.stopQueued = TRUE]

\* MediaRecorder.stop(): a recording recorder becomes inactive and queues the
\* task that fires dataavailable and stop; an inactive one is left as it is.
stop(j) ==
  [j EXCEPT !.stopCalls = @ + 1,
            !.recorder = IF @ = "recording" THEN "inactive" ELSE @,
            !.stopQueued = @ \/ (j.recorder = "recording")]

\* A loop that advances by two frames per tick.
NextFrameSkips(f) == f + 2

\* currentFrame++ (l.227)
NextFrame(f) == f + 1

renderFrame(j) ==
  IF AtTotalFrames(j.currentFrame, j.images)
  THEN stop(j)
  ELSE LET d == Paint(j.currentFrame, j.images, j.transition, j.alpha)
       IN  [j EXCEPT !.alpha = d.alpha,
                     !.painted = d.painted,
                     !.frames = <<j.currentFrame, @[2] + 1>>,
                     !.currentFrame = NextFrame(@)]

\* Whether the tick drew a frame and so called requestAnimationFrame (l.229).
Rescheduled(j) == ~AtTotalFrames(j.currentFrame, j.images)

\* setRenderProgress((currentFrame / totalFrames) * 100) (l.228)
FrameProgress(j) == Percent(100 * j.currentFrame * frameDuration, j.images * cycleTime)

(***************************************************************************)
(* Capture pipeline of the render (l.86-130).                              *)
(***************************************************************************)
\* A handler that puts each new chunk in front of the earlier ones.
ondataavailableInFront(j, size) ==
  [j EXCEPT !.blobs = Append(@, size),
            !.chunks = IF size > 0 THEN <<Len(j.blobs) + 1>> \o @ ELSE @]

\* mediaRecorder.ondataavailable (l.94-96; video-editor.tsx l.142-146)
ondataavailable(j, size) ==
  [j EXCEPT !.blobs = Append(@, size),
            !.chunks = IF size > 0 THEN Append(@, Len(j.blobs) + 1) ELSE @]

\* l.110-123: the File is built and handed to onVideoCreate
Deliver(j, container) ==
  [j EXCEPT !.onstop = "done",
            !.created = @ + 1,
            !.artifact = [made |-> TRUE, type |-> "video/webm",
                          name |-> "rendered-video.webm",
                          container |-> container,
                          chunks |-> j.blob,
                          complete |-> ~j.errored]]

\* A catch that hands the recording over as well.
FailFinalizeDelivers(j) == [j EXCEPT !.onstop = "done", !.toasts = @ + 1, !.created = @ + 1]

\* l.124-126: catch of onstop
FailFinalize(j) == [j EXCEPT !.onstop = "done", !.toasts = @ + 1]

\* new FFmpeg(); await ffmpeg.load() (l.285-288)
combineVideoWithAudio(j) ==
  [j EXCEPT !.onstop = "remux",
            !.ff = [pc |-> "load", ops |-> <<"new", "load">>,
                    listening |-> FALSE, forwarded |-> <<>>]]

\* A check that lets every attached file through.
AnyFileAccepted(a) == a # "none"

\* The audio check of onstop (l.102-106): the file, when there is one, must
\* have an audio media type before the remux is entered.
AudioAccepted(a) == a = "audio"

\* mediaRecorder.onstop up to its first await (l.98-108)
onstop(j) ==
  LET f == [j EXCEPT !.finalized = @ + 1, !.blob = j.chunks]
  IN  IF j.audio = "none" THEN Deliver(f, "webm")
      ELSE IF ~AudioAccepted(j.audio) THEN FailFinalize(f)
      ELSE combineVideoWithAudio(f)

\* ffmpeg.terminate() in the finally of combineVideoWithAudio (l.329-331)
terminate(ff) == [ff EXCEPT !.pc = "closed", !.ops = Append(@, "terminate")]

\* The awaited runtime call resolved: the adapter goes on to its next call
\* (l.288-323).
FFmpegNext(ff) ==
  CASE ff.pc = "load" ->
         [ff EXCEPT !.pc = "writeVideo", !.listening = TRUE, !.ops = Append(@, "writeFile")]
    [] ff.pc = "writeVideo" -> [ff EXCEPT !.pc = "writeAudio", !.ops = Append(@, "writeFile")]
    [] ff.pc = "writeAudio" -> [ff EXCEPT !.pc = "probe", !.ops = Append(@, "exec")]
    [] ff.pc = "probe" -> [ff EXCEPT !.pc = "mux", !.ops = Append(@, "exec")]
    [] ff.pc = "mux" -> [ff EXCEPT !.pc = "read", !.ops = Append(@, "readFile")]
    [] ff.pc = "read" -> terminate(ff)
    [] OTHER -> ff

\* A failure path that leaves the runtime running.
FFmpegCatchLeaks(ff) == [ff EXCEPT !.pc = "closed"]

\* The awaited runtime call rejected: catch, rethrow, finally (l.326-331).
FFmpegCatch(ff) == terminate(ff)

\* Math.min(100, Math.round(progress * 100)) for progress = q / 1000 (l.291)
Forwarded(q) == Min(100, (q + 5) \div 10)

LastTwo(q) == IF Len(q) > 2 THEN SubSeq(q, Len(q) - 1, Len(q)) ELSE q

(***************************************************************************)
(* Actions of VideoCreator.                                                *)
(***************************************************************************)
Reusable(s) ==
  \/ jobs[s].pc = "free"
  \/ Finished(jobs[s]) /\ s \notin Range(rafQueue)

\* A finished job whose frame loop is still scheduled keeps the state its loop
\* reads; what its recorder and remux left behind is unreachable once the next
\* job begins, and is dropped from the model.
Superseded(j) ==
  [j EXCEPT !.audio = "none", !.blobs = <<>>, !.chunks = <<>>, !.blob = <<>>,
            !.artifact = NoArtifact, !.ff = NoFFmpeg]

\* A guard that lets a call with no images through.
NoImagesIgnored(n) == FALSE

\* !images.length (l.65)
NoImages(n) == n = 0

\* The Render button (l.428-432) calls renderVideo (l.64-75) with the images,
\* audio and transition of the component's state. The button is disabled
\* while there are no images or a render runs; a call with no images, which
\* reaches renderVideo only past the button, returns at l.65.
renderVideo(n, a, kind) ==
  /\ mounted = "VideoCreator"
  /\ lastCallEmpty' = (n = 0)
  /\ IF NoImages(n)
     THEN UNCHANGED <<isRendering, renderProgress, jobs>>
     ELSE /\ ~isRendering
          /\ \E s \in Slots :
               /\ Reusable(s)
               /\ \A t \in Slots : Reusable(t) => s <= t
               /\ jobs' = [t \in Slots |->
                             IF t = s
                             THEN [FreeJob EXCEPT !.pc = "loading", !.images = n, !.audio = a,
                                                  !.transition = kind, !.canvas = TRUE]
                             ELSE IF Reusable(t) THEN FreeJob
                             ELSE IF Finished(jobs[t]) THEN Superseded(jobs[t]) ELSE jobs[t]]
          /\ isRendering' = TRUE
          /\ renderProgress' = Zero
  /\ UNCHANGED <<mounted, rafQueue, recorderErrors, editorVars>>

\* A combinator that resolves with the first image that loads.
AnyResolved(loaded, n) == loaded >= 1

\* Promise.all (l.78) resolves once every loadImage promise (l.243-250) has.
AllResolved(loaded, n) == loaded = n

\* An image loaded (img.onload, l.246). With the last one,
\* Promise.all(images.map(loadImage)) resolves: the recorder is created and
\* started and the first tick runs (l.78-92, l.232-233).
ImagesLoaded(s) ==
  /\ jobs[s].pc = "loading"
  /\ LET l == [jobs[s] EXCEPT !.loaded = @ + 1]
         j == renderFrame([l EXCEPT !.pc = "started", !.stream = TRUE,
                                    !.recorder = "recording"])
     IN  IF AllResolved(l.loaded, l.images)
         THEN /\ jobs' = [jobs EXCEPT ![s] = j]
              /\ renderProgress' = FrameProgress(j)
              /\ rafQueue' = Append(rafQueue, s)
         ELSE /\ jobs' = [jobs EXCEPT ![s] = l]
              /\ UNCHANGED <<renderProgress, rafQueue>>
  /\ UNCHANGED <<mounted, lastCallEmpty, isRendering, recorderErrors, editorVars>>

\* l.235-239: catch of renderVideo
Caught(j) == [j EXCEPT !.pc = "caught", !.toasts = @ + 1]

\* An image failed to load (img.onerror, l.247): Promise.all rejects.
ImageLoadFailed(s) ==
  /\ jobs[s].pc = "loading"
  /\ jobs' = [jobs EXCEPT ![s] = Caught(@)]
  /\ isRendering' = FALSE
  /\ UNCHANGED <<mounted, lastCallEmpty, renderProgress, rafQueue, recorderErrors, editorVars>>

\* The last image loaded and new MediaRecorder throws (the mime type is not
\* supported) (l.80-84).
RecorderUnsupported(s) ==
  /\ jobs[s].pc = "loading"
  /\ AllResolved(jobs[s].loaded + 1, jobs[s].images)
  /\ jobs' = [jobs EXCEPT ![s] = Caught([@ EXCEPT !.loaded = @ + 1, !.stream = TRUE])]
  /\ isRendering' = FALSE
  /\ UNCHANGED <<mounted, lastCallEmpty, renderProgress, rafQueue, recorderErrors, editorVars>>

\* One animation frame: the registered callbacks run in registration order.
AnimationFrame ==
  /\ mounted = "VideoCreator"
  /\ rafQueue # <<>>
  /\ LET after == [s \in Slots |-> IF s \in Range(rafQueue) THEN renderFrame(jobs[s]) ELSE jobs[s]]
         again == SelectSeq(rafQueue, LAMBDA s : Rescheduled(jobs[s]))
     IN  /\ jobs' = after
         /\ rafQueue' = again
         /\ renderProgress' = IF again = <<>> THEN renderProgress
                              ELSE FrameProgress(after[again[Len(again)]])
  /\ UNCHANGED <<mounted, lastCallEmpty, isRendering, recorderErrors, editorVars>>

\* The recorder delivers a blob while recording.
RecorderData(s, size) ==
  /\ mounted = "VideoCreator"
  /\ jobs[s].recorder = "recording"
  /\ Len(jobs[s].blobs) + 1 < MaxChunks
  /\ jobs' = [jobs EXCEPT ![s] = ondataavailable(@, size)]
  /\ UNCHANGED <<mounted, lastCallEmpty, isRendering, renderProgress, rafQueue, recorderErrors, editorVars>>

\* A finalization that leaves isRendering set.
FinalizeKeepsRendering(s, j) ==
  /\ jobs' = [jobs EXCEPT ![s] = j]
  /\ isRendering' = isRendering

\* A step of onstop; its finally clears isRendering (l.127-129) once it ends.
Finalize(s, j) ==
  /\ jobs' = [jobs EXCEPT ![s] = j]
  /\ isRendering' = IF j.onstop = "done" THEN FALSE ELSE isRendering

\* The task queued by stop(): dataavailable, then stop.
RecorderStopTask(s, size) ==
  /\ mounted = "VideoCreator"
  /\ jobs[s].stopQueued
  /\ Finalize(s, onstop(ondataavailable([jobs[s] EXCEPT !.stopQueued = FALSE], size)))
  /\ UNCHANGED <<mounted, lastCallEmpty, renderProgress, rafQueue, recorderErrors, editorVars>>

\* The encoder fails while recording: the recorder becomes inactive and fires
\* error (no handler is installed), dataavailable and stop in one task.
RecorderError(s, size) ==
  /\ mounted = "VideoCreator"
  /\ jobs[s].recorder = "recording"
  /\ recorderErrors < MaxRecorderErrors
  /\ recorderErrors' = recorderErrors + 1
  /\ Finalize(s, onstop(ondataavailable([jobs[s] EXCEPT !.recorder = "inactive",
                                                        !.errored = TRUE], size)))
  /\ UNCHANGED <<mounted, lastCallEmpty, renderProgress, rafQueue, editorVars>>

\* The runtime call awaited by combineVideoWithAudio resolves.
FFmpegResolve(s) ==
  /\ jobs[s].onstop = "remux"
  /\ LET ff == FFmpegNext(jobs[s].ff)
         j == [jobs[s] EXCEPT !.ff = ff]
     IN  Finalize(s, IF ff.pc = "closed" THEN Deliver(j, "mp4") ELSE j)
  /\ UNCHANGED <<mounted, lastCallEmpty, renderProgress, rafQueue, recorderErrors, editorVars>>

\* The runtime call awaited by combineVideoWithAudio rejects.
FFmpegReject(s) ==
  /\ jobs[s].onstop = "remux"
  /\ Finalize(s, FailFinalize([jobs[s] EXCEPT !.ff = FFmpegCatch(@)]))
  /\ UNCHANGED <<mounted, lastCallEmpty, renderProgress, rafQueue, recorderErrors, editorVars>>

\* The runtime emits a progress event during an exec (l.290-292).
FFmpegProgress(s, q) ==
  /\ jobs[s].onstop = "remux"
  /\ jobs[s].ff.listening
  /\ jobs[s].ff.pc \in {"probe", "mux"}
  /\ renderProgress' = Percent(Forwarded(q), 1)
  /\ jobs' = [jobs EXCEPT ![s].ff.forwarded = LastTwo(Append(@, Forwarded(q)))]
  /\ UNCHANGED <<mounted, lastCallEmpty, isRendering, rafQueue, recorderErrors, editorVars>>

(***************************************************************************)
(* VideoEditor (video-editor.tsx): the video element and the trim pipeline.*)
(*                                                                         *)
(* The video element:                                                      *)
(*   src, trimmedUrl   object URL ids (0: none); length the media's length *)
(*   finite            whether the media reports a finite duration         *)
(*   loading           the metadata of a new src is not loaded yet         *)
(*                     (video.duration is NaN)                             *)
(*   currentTime, paused                                                   *)
(*   ontimeupdate, oncanplay   the trim whose handler is installed (0: no) *)
(*   timeupdate, canplay       an event of that name is queued             *)
(*                                                                         *)
(* The closure of one handleTrimConfirm call:                              *)
(*   start, end, finite   trimStart, trimEnd and isFinite(video.duration)  *)
(*             as the call read them                                       *)
(*   promise   "none" | "pending" | "resolved" | "rejected" (l.149)        *)
(*   outcome   "active" | "done" (l.226-229) | "failed" (l.231-237)        *)
(*   recorder  "none" | "idle" (constructed) | "recording" | "inactive"    *)
(*   from, recorded   currentTime at start(), and the length recorded      *)
(*   url       the object URL made by onstop (0: none)                     *)
(***************************************************************************)
FreeTrim ==
  [start |-> 0, end |-> 0, finite |-> FALSE, promise |-> "none", outcome |-> "active",
   stream |-> FALSE, tracksStopped |-> FALSE, recorder |-> "none",
   starts |-> 0, stopQueued |-> FALSE, stopCalls |-> 0, errored |-> FALSE,
   blobs |-> <<>>, chunks |-> <<>>, blob |-> <<>>, from |-> 0, recorded |-> 0,
   finalized |-> 0, url |-> 0]

World ==
  [video |-> video, liveUrls |-> liveUrls, trimDialogOpen |-> trimDialogOpen,
   trimStart |-> trimStart, trimEnd |-> trimEnd, isTrimming |-> isTrimming,
   trimProgress |-> trimProgress, duration |-> duration, isPlaying |-> isPlaying,
   trims |-> trims, rafQueue |-> rafQueue]

Becomes(e) ==
  /\ video' = e.video
  /\ liveUrls' = e.liveUrls
  /\ trimDialogOpen' = e.trimDialogOpen
  /\ trimStart' = e.trimStart
  /\ trimEnd' = e.trimEnd
  /\ isTrimming' = e.isTrimming
  /\ trimProgress' = e.trimProgress
  /\ duration' = e.duration
  /\ isPlaying' = e.isPlaying
  /\ trims' = e.trims
  /\ rafQueue' = e.rafQueue

\* isFinite(video.duration)
DurationFinite(v) == ~v.loading /\ v.finite

\* video.pause(): a playing element is paused and queues timeupdate.
pause(e) ==
  IF e.video.paused THEN e
  ELSE [e EXCEPT !.video.paused = TRUE, !.video.timeupdate = TRUE]

\* video.play(): playback that has ended starts again from 0.
play(e) ==
  [e EXCEPT !.video.paused = FALSE,
            !.video.currentTime = IF @ >= e.video.length THEN 0 ELSE @]

Elapsed(e, j) == IF e.video.currentTime > j.from THEN e.video.currentTime - j.from ELSE 0

\* stopRecording (l.189-193)
stopRecording(e, s) ==
  LET j == e.trims[s]
      p == pause(e)
  IN  [p EXCEPT !.trims[s] =
         [stop(j) EXCEPT !.tracksStopped = j.stream,
                         !.recorded = IF j.recorder = "recording" THEN Elapsed(e, j) ELSE @]]

\* Math.round(Math.min(100, Math.max(0, progress))) (l.202-203)
Progress(ct, a, b) ==
  IF ct <= a THEN 0
  ELSE Min(100, (200 * (ct - a) + (b - a)) \div (2 * (b - a)))

\* updateProgress (l.196-208)
updateProgress(e, s) ==
  LET j == e.trims[s]
  IN  IF e.video.currentTime >= j.end
      THEN stopRecording(e, s)
      ELSE [e EXCEPT !.trimProgress = Progress(e.video.currentTime, j.start, j.end),
                     !.rafQueue = Append(@, s)]

\* video.ontimeupdate (l.211-215)
ontimeupdate(e) ==
  LET s == e.video.ontimeupdate
  IN  IF s # 0 /\ e.video.currentTime >= e.trims[s].end
      THEN stopRecording(e, s)
      ELSE e

\* resolve(), and handleTrimConfirm after its await (l.226-229)
resolve(e, s) ==
  IF e.trims[s].promise # "pending" THEN e
  ELSE [e EXCEPT !.trims[s].promise = "resolved",
                 !.trims[s].outcome = "done",
                 !.trimDialogOpen = FALSE,
                 !.isTrimming = FALSE,
                 !.trimProgress = 100]

\* The catch of handleTrimConfirm (l.231-237)
TrimFailed(e) ==
  [e EXCEPT !.isTrimming = FALSE, !.trimProgress = 0, !.trimDialogOpen = FALSE]

\* reject(), and the catch of handleTrimConfirm
reject(e, s) ==
  IF e.trims[s].promise # "pending" THEN e
  ELSE [TrimFailed(e) EXCEPT !.trims[s].promise = "rejected",
                             !.trims[s].outcome = "failed"]

\* URL.revokeObjectURL of the stored URL (l.160-162)
Revoked(live, old) == IF old # 0 THEN live \ {old} ELSE live

\* mediaRecorder.onstop of a trim (l.151-174). Setting src starts a load: the
\* element is paused at 0 and its queued events are dropped.
trimOnstop(e, s, fin) ==
  LET j == e.trims[s]
      url == e.liveUrls.made + 1
      e1 == [e EXCEPT
               !.liveUrls = [made |-> url,
                             live |-> Revoked(@.live \cup {url}, e.video.trimmedUrl)],
               !.video = [@ EXCEPT !.src = url, !.length = j.recorded, !.finite = fin,
                                   !.loading = TRUE, !.currentTime = 0, !.paused = TRUE,
                                   !.timeupdate = FALSE, !.canplay = FALSE,
                                   !.trimmedUrl = url],
               !.duration = [finite |-> TRUE, value |-> j.end - j.start],
               !.trims[s].finalized = @ + 1,
               !.trims[s].blob = j.chunks,
               !.trims[s].url = url]
  IN  resolve(e1, s)

\* mediaRecorder.onerror of a trim (l.177-180)
trimOnerror(e, s) == reject(e, s)

\* startRecording (l.183-186)
startRecording(e, s) ==
  [play(e) EXCEPT !.trims[s].recorder = "recording",
                  !.trims[s].starts = @ + 1,
                  !.trims[s].from = e.video.currentTime]

\* video.oncanplay (l.219-223)
oncanplay(e, s) ==
  updateProgress(startRecording([e EXCEPT !.video.oncanplay = 0], s), s)

RECURSIVE RunCallbacks(_, _)
RunCallbacks(e, q) ==
  IF q = <<>> THEN e ELSE RunCallbacks(updateProgress(e, Head(q)), Tail(q))

(***************************************************************************)
(* Actions of VideoEditor.                                                 *)
(***************************************************************************)
Editor(e) ==
  /\ mounted = "VideoEditor"
  /\ \A s \in 1..Len(e.trims) : e.trims[s].stopCalls <= MaxStopCalls
  /\ Becomes(e)
  /\ UNCHANGED <<mounted, lastCallEmpty, creatorVars>>

\* handleTrimOpen (l.101-111), the Trim button
handleTrimOpen ==
  /\ ~trimDialogOpen
  /\ Editor([pause(World) EXCEPT
               !.trimStart = 0,
               !.trimEnd = IF DurationFinite(video) THEN video.length ELSE 0,
               !.trimDialogOpen = TRUE,
               !.isPlaying = FALSE])
  /\ UNCHANGED recorderErrors

\* The range slider of the dialog (l.329-338). A running trim reads the range
\* its click saw (l.113), and handleTrimOpen sets the range anew, so the
\* slider is moved only while no trim runs.
TrimRange(a, b) ==
  /\ trimDialogOpen
  /\ ~isTrimming
  /\ a <= b
  /\ duration.finite => b <= duration.value
  /\ Editor([World EXCEPT !.trimStart = a, !.trimEnd = b])
  /\ UNCHANGED recorderErrors

\* Dialog onOpenChange (l.320): the dialog is dismissed
DialogDismiss ==
  /\ trimDialogOpen
  /\ Editor([World EXCEPT !.trimDialogOpen = FALSE])
  /\ UNCHANGED recorderErrors

\* The Cancel button (l.358-365)
CancelClick ==
  /\ trimDialogOpen
  /\ ~isTrimming
  /\ Editor([World EXCEPT !.trimDialogOpen = FALSE])
  /\ UNCHANGED recorderErrors

\* togglePlay (l.51-60)
togglePlay ==
  /\ ~trimDialogOpen
  /\ Editor([(IF isPlaying THEN pause(World) ELSE play(World)) EXCEPT
               !.isPlaying = ~isPlaying])
  /\ UNCHANGED recorderErrors

\* handleSeek (l.74-79), the seek slider: the element seeks and queues
\* timeupdate.
handleSeek(t) ==
  /\ ~trimDialogOpen
  /\ ~video.loading
  /\ t <= video.length
  /\ Editor([World EXCEPT !.video.currentTime = t, !.video.timeupdate = TRUE])
  /\ UNCHANGED recorderErrors

\* A validation that lets every range through.
TrimValidAlways(a, b, v) == TRUE

\* The validation of handleTrimConfirm (l.123-128); the slider's values are
\* finite numbers.
TrimValid(a, b, v) == a < b /\ DurationFinite(v)

\* An earlier trim when the next one starts: its recording is no longer
\* reachable from the component; its handlers may still be registered.
SupersededTrim(j) ==
  [j EXCEPT !.blobs = <<>>, !.chunks = <<>>, !.blob = <<>>, !.from = 0, !.recorded = 0,
            !.url = 0]

\* handleTrimConfirm up to its await (l.113-224), the Apply Trim button.
\* `supported`: whether new MediaRecorder accepts the mime type.
handleTrimConfirm(supported) ==
  /\ trimDialogOpen
  /\ ~isTrimming
  /\ Len(trims) < MaxTrims
  /\ LET s == Len(trims) + 1
         j == [FreeTrim EXCEPT !.start = trimStart, !.end = trimEnd,
                               !.finite = DurationFinite(video)]
         e == [World EXCEPT !.isTrimming = TRUE, !.trimProgress = 0,
                            !.trims = [t \in 1..Len(trims) |-> SupersededTrim(trims[t])]]
     IN  IF ~TrimValid(trimStart, trimEnd, video)
         THEN Editor(TrimFailed([e EXCEPT !.trims = Append(@, [j EXCEPT !.outcome = "failed"])]))
         ELSE IF ~supported
         THEN Editor(TrimFailed([e EXCEPT !.trims =
                        Append(@, [j EXCEPT !.outcome = "failed", !.stream = TRUE])]))
         ELSE Editor([e EXCEPT
                        !.trims = Append(@, [j EXCEPT !.stream = TRUE, !.recorder = "idle",
                                                      !.promise = "pending"]),
                        !.video = [@ EXCEPT !.ontimeupdate = s, !.oncanplay = s,
                                            !.currentTime = trimStart,
                                            !.timeupdate = TRUE, !.canplay = TRUE]])
  /\ UNCHANGED recorderErrors

\* loadedmetadata of a new src: handleLoadedMetadata (l.68-72); canplay follows.
MediaLoaded ==
  /\ video.loading
  /\ Editor([World EXCEPT !.video.loading = FALSE, !.video.canplay = TRUE,
                          !.duration = [finite |-> video.finite, value |-> video.length]])
  /\ UNCHANGED recorderErrors

\* The canplay event
CanPlay ==
  /\ video.canplay
  /\ ~video.loading
  /\ LET e == [World EXCEPT !.video.canplay = FALSE]
     IN  Editor(IF video.oncanplay # 0 THEN oncanplay(e, video.oncanplay) ELSE e)
  /\ UNCHANGED recorderErrors

\* The timeupdate event
TimeUpdate ==
  /\ video.timeupdate
  /\ Editor(ontimeupdate([World EXCEPT !.video.timeupdate = FALSE]))
  /\ UNCHANGED recorderErrors

\* Playback advances by one unit of time and queues timeupdate.
Playback ==
  /\ ~video.paused
  /\ ~video.loading
  /\ video.currentTime < video.length
  /\ Editor([World EXCEPT !.video.currentTime = @ + 1, !.video.timeupdate = TRUE])
  /\ UNCHANGED recorderErrors

\* One animation frame of the editor: the registered updateProgress callbacks.
TrimAnimationFrame ==
  /\ rafQueue # <<>>
  /\ Editor(RunCallbacks([World EXCEPT !.rafQueue = <<>>], rafQueue))
  /\ UNCHANGED recorderErrors

\* The recorder of a trim delivers a blob while recording (l.142-146).
TrimRecorderData(s, size) ==
  /\ s \in 1..Len(trims)
  /\ trims[s].recorder = "recording"
  /\ Len(trims[s].blobs) + 1 < MaxChunks
  /\ Editor([World EXCEPT !.trims[s] = ondataavailable(@, size)])
  /\ UNCHANGED recorderErrors

\* The task queued by stop(): dataavailable, then stop.
TrimRecorderStopTask(s, size, fin) ==
  /\ s \in 1..Len(trims)
  /\ trims[s].stopQueued
  /\ Editor(trimOnstop([World EXCEPT !.trims[s] =
                          ondataavailable([@ EXCEPT !.stopQueued = FALSE], size)], s, fin))
  /\ UNCHANGED recorderErrors

\* The encoder fails while recording: the recorder becomes inactive and fires
\* error, dataavailable and stop in one task.
TrimRecorderError(s, size, fin) ==
  /\ s \in 1..Len(trims)
  /\ trims[s].recorder = "recording"
  /\ recorderErrors < MaxRecorderErrors
  /\ recorderErrors' = recorderErrors + 1
  /\ LET j == trims[s]
         e0 == [World EXCEPT !.trims[s] = [j EXCEPT !.recorder = "inactive", !.errored = TRUE,
                                                    !.recorded = Elapsed(World, j)]]
         e1 == trimOnerror(e0, s)
         e2 == [e1 EXCEPT !.trims[s] = ondataavailable(@, size)]
     IN  Editor(trimOnstop(e2, s, fin))

Init ==
  /\ mounted \in {"VideoCreator", "VideoEditor"}
  /\ lastCallEmpty = FALSE
  /\ isRendering = FALSE
  /\ renderProgress = Zero
  /\ jobs = [s \in Slots |-> FreeJob]
  /\ rafQueue = <<>>
  /\ recorderErrors = 0
  /\ \E fin \in BOOLEAN :
       /\ mounted = "VideoCreator" => fin
       /\ video = [src |-> 1, length |-> MaxTime, finite |-> fin, loading |-> FALSE,
                   currentTime |-> 0, paused |-> TRUE, trimmedUrl |-> 0,
                   ontimeupdate |-> 0, oncanplay |-> 0,
                   timeupdate |-> FALSE, canplay |-> FALSE]
       /\ duration = [finite |-> fin, value |-> MaxTime]
  /\ liveUrls = [made |-> 1, live |-> {1}]
  /\ trimDialogOpen = FALSE
  /\ trimStart = 0
  /\ trimEnd = 0
  /\ isTrimming = FALSE
  /\ trimProgress = 0
  /\ isPlaying = FALSE
  /\ trims = <<>>

Next ==
  \/ \E n \in 0..MaxImages, a \in AudioKinds : renderVideo(n, a, "fade")
  \/ \E s \in Slots : ImagesLoaded(s)
  \/ \E s \in Slots : ImageLoadFailed(s)
  \/ \E s \in Slots : RecorderUnsupported(s)
  \/ AnimationFrame
  \/ \E s \in Slots, size \in BlobSizes : RecorderData(s, size)
  \/ \E s \in Slots, size \in BlobSizes : RecorderStopTask(s, size)
  \/ \E s \in Slots, size \in BlobSizes : RecorderError(s, size)
  \/ \E s \in Slots : FFmpegResolve(s)
  \/ \E s \in Slots : FFmpegReject(s)
  \/ \E s \in Slots, q \in ProgressEvents : FFmpegProgress(s, q)
  \/ handleTrimOpen
  \/ \E a, b \in 0..MaxTime : TrimRange(a, b)
  \/ DialogDismiss
  \/ CancelClick
  \/ togglePlay
  \/ \E t \in 0..MaxTime : handleSeek(t)
  \/ \E supported \in BOOLEAN : handleTrimConfirm(supported)
  \/ MediaLoaded
  \/ CanPlay
  \/ TimeUpdate
  \/ Playback
  \/ TrimAnimationFrame
  \/ \E s \in 1..MaxTrims, size \in BlobSizes : TrimRecorderData(s, size)
  \/ \E s \in 1..MaxTrims, size \in BlobSizes, fin \in BOOLEAN : TrimRecorderStopTask(s, size, fin)
  \/ \E s \in 1..MaxTrims, size \in BlobSizes, fin \in BOOLEAN : TrimRecorderError(s, size, fin)

Spec == Init /\ [][Next]_vars

(***************************************************************************)
(* The frame schedule alone: renders of up to MaxScheduleImages images     *)
(* with every transition, no audio, and an encoder that does not fail; an  *)
(* image may fail to load.                                                 *)
(***************************************************************************)
InitSchedule == Init /\ mounted = "VideoCreator"

NextSchedule ==
  \/ \E n \in 1..MaxScheduleImages, kind \in Transitions : renderVideo(n, "none", kind)
  \/ \E s \in Slots : ImagesLoaded(s)
  \/ \E s \in Slots : ImageLoadFailed(s)
  \/ AnimationFrame
  \/ \E s \in Slots : RecorderStopTask(s, 1)

SpecSchedule == InitSchedule /\ [][NextSchedule]_vars

(***************************************************************************)
(* The render pipeline under fair delivery. The browser settles every      *)
(* image load, runs every requested animation frame and delivers every     *)
(* queued recorder task; the runtime settles every call awaited on it.     *)
(***************************************************************************)
LoadSettles == \E s \in Slots : ImagesLoaded(s) \/ ImageLoadFailed(s) \/ RecorderUnsupported(s)
StopDelivered == \E s \in Slots : RecorderStopTask(s, 1)
RuntimeSettles == \E s \in Slots : FFmpegResolve(s) \/ FFmpegReject(s)

NextFair ==
  \/ \E a \in AudioKinds : renderVideo(1, a, "fade")
  \/ LoadSettles
  \/ AnimationFrame
  \/ StopDelivered
  \/ \E s \in Slots : RecorderError(s, 1)
  \/ RuntimeSettles

SpecFair ==
  /\ InitSchedule
  /\ [][NextFair]_vars
  /\ WF_vars(LoadSettles)
  /\ WF_vars(AnimationFrame)
  /\ WF_vars(StopDelivered)
  /\ WF_vars(RuntimeSettles)

(***************************************************************************)
(* Properties.                                                             *)
(***************************************************************************)
Started(j) == j.pc = "started"

\* C1: a job is finalized at most once however often stop() is called on its
\* recorder: no render or trim has run onstop twice, every trim's onstop made
\* exactly one object URL, and no render handed over more than one file.
C1_FinalizedOnce ==
  /\ \A s \in Slots : jobs[s].finalized <= 1 /\ jobs[s].created <= 1
  /\ \A s \in 1..Len(trims) : trims[s].finalized <= 1
  /\ \A s \in 1..Len(trims) : trims[s].url # 0 => trims[s].finalized = 1
  /\ liveUrls.made = 1 + Cardinality({s \in 1..Len(trims) : trims[s].finalized >= 1})

\* A trim on whose recorder stop() was called twice and that was finalized.
C1_Witness ==
  \E s \in 1..Len(trims) :
    trims[s].stopCalls >= 2 /\ trims[s].finalized = 1 /\ trims[s].outcome = "done"

\* C2: a job whose recorder reported an error surfaces no artifact: a render
\* does not call onVideoCreate, a trim does not replace the video's source.
C2_NoArtifactAfterError ==
  /\ \A s \in Slots : jobs[s].errored => jobs[s].created = 0
  /\ \A s \in 1..Len(trims) : trims[s].errored => trims[s].url = 0

\* C3: a render draws the frames 0, 1, 2, ... once each in increasing order
\* while currentFrame < totalFrames, calls stop exactly once when
\* currentFrame >= totalFrames, and neither draws nor ticks after that.
C3_FrameOrder ==
  \A s \in Slots :
    LET j == jobs[s]
        ended == AtTotalFrames(j.currentFrame, j.images)
    IN  Started(j) =>
          /\ j.frames = <<j.currentFrame - 1, j.currentFrame>>
          /\ ~AtTotalFrames(j.frames[1], j.images)
          /\ j.stopCalls <= 1
          /\ j.stopCalls = 1 => ended
          /\ j.stopCalls = 1 <=> s \notin Range(rafQueue)

\* A render that drew its frames and called stop.
C3_Witness ==
  \E s \in Slots :
    Started(jobs[s]) /\ jobs[s].stopCalls = 1 /\ jobs[s].frames[2] > 1

\* C4: a render of N images has drawn N * 105 frames when it calls stop
\* (315 for three images).
C4_FrameCount ==
  \A s \in Slots :
    jobs[s].stopCalls >= 1 => jobs[s].frames[2] = jobs[s].images * 105

\* A render of three images that called stop after 315 frames.
C4_Witness ==
  \E s \in Slots :
    jobs[s].images = 3 /\ jobs[s].stopCalls = 1 /\ jobs[s].frames[2] = 315

\* C5: under fair delivery, whenever isRendering is true it becomes false.
C5_RenderingEnds == isRendering ~> ~isRendering

\* A render ran to its end and cleared isRendering.
C5_Witness ==
  /\ ~isRendering
  /\ \E s \in Slots : jobs[s].finalized = 1 /\ jobs[s].onstop = "done"

\* C6: a render ends in at most one outcome: onVideoCreate is called once
\* and no error is reported, or an error is reported and onVideoCreate is not
\* called.
C6_OneOutcome ==
  \A s \in Slots :
    /\ jobs[s].created + jobs[s].toasts <= 1
    /\ jobs[s].artifact.made => jobs[s].created = 1
    /\ Finished(jobs[s]) => jobs[s].created + jobs[s].toasts = 1

\* A render whose remux failed: the error was reported, nothing delivered.
C6_Witness ==
  \E s \in Slots :
    /\ jobs[s].ff.pc = "closed"
    /\ jobs[s].toasts = 1
    /\ jobs[s].created = 0

\* C7: with an attached file that is not audio the finalization fails before
\* any runtime is created, loaded or invoked.
C7_NoRuntimeForNonAudio ==
  \A s \in Slots :
    jobs[s].audio = "other" =>
      /\ jobs[s].ff = NoFFmpeg
      /\ jobs[s].onstop # "remux"
      /\ jobs[s].created = 0
      /\ jobs[s].finalized = 1 => jobs[s].toasts = 1

\* A render with a non-audio file was finalized.
C7_Witness ==
  \E s \in Slots : jobs[s].audio = "other" /\ jobs[s].finalized = 1

\* C8: a render started with a file that is not audio allocates nothing: no
\* capture stream, no recorder, no recording, no frame drawn.
C8_RejectedAtBoundary ==
  \A s \in Slots :
    jobs[s].audio = "other" =>
      /\ ~jobs[s].stream
      /\ jobs[s].recorder = "none"
      /\ jobs[s].frames[2] = 0

\* C9: a remux creates one runtime of its own and terminates it exactly once
\* on every path, as the last operation on it.
Count(q, x) == Cardinality({i \in 1..Len(q) : q[i] = x})

C9_RuntimeTerminated ==
  \A s \in Slots :
    LET ff == jobs[s].ff
    IN  ff # NoFFmpeg =>
          /\ ff.ops[1] = "new" /\ Count(ff.ops, "new") = 1
          /\ Count(ff.ops, "terminate") <= 1
          /\ ff.pc = "closed" <=> ff.ops[Len(ff.ops)] = "terminate"
          /\ jobs[s].onstop = "done" => ff.pc = "closed"

\* A remux that failed part way and was left.
C9_Witness ==
  \E s \in Slots :
    /\ jobs[s].ff.pc = "closed"
    /\ jobs[s].onstop = "done"
    /\ Count(jobs[s].ff.ops, "exec") < 2

\* C10: the progress values a remux forwards are integers in 0..100 and
\* never decrease.
C10_ProgressMonotone ==
  \A s \in Slots :
    LET f == jobs[s].ff.forwarded
    IN  /\ \A i \in 1..Len(f) : f[i] \in 0..100
        /\ \A i \in 1..Len(f) - 1 : f[i] <= f[i + 1]

\* The media type of a container.
ContainerType(c) == IF c = "mp4" THEN "video/mp4" ELSE "video/webm"

\* C11: the file handed to onVideoCreate is tagged with the container it
\* holds: video/webm for a render without audio, video/mp4 after a remux.
C11_ContainerTag ==
  \A s \in Slots :
    jobs[s].artifact.made =>
      jobs[s].artifact.type = ContainerType(jobs[s].artifact.container)

\* C12: the trim dialog is not opened on a video whose duration is not
\* finite: while it is open and no trim runs, the duration is finite.
C12_OpenOnlyFinite ==
  trimDialogOpen /\ ~isTrimming => DurationFinite(video)

\* C13: a trim records only after the validation of the click passed
\* (trimStart < trimEnd, duration finite) and its canplay handler ran; its
\* recorder is started at most once; a click that fails the validation
\* creates no capture stream and no recorder and fails at once.
C13_RecordingAfterValidation ==
  \A s \in 1..Len(trims) :
    LET j == trims[s]
        valid == j.start < j.end /\ j.finite
    IN  /\ j.starts <= 1
        /\ j.starts = 1 => valid /\ video.oncanplay # s
        /\ j.recorder \in {"recording", "inactive"} => j.starts = 1
        /\ ~valid => /\ ~j.stream
                     /\ j.recorder = "none"
                     /\ j.outcome = "failed"
                     /\ j.promise = "none"

\* A trim that passed the validation and is recording.
C13_Witness ==
  \E s \in 1..Len(trims) :
    trims[s].starts = 1 /\ trims[s].recorder = "recording" /\ trims[s].start > 0

\* C14: the trimProgress values of a trim lie in 0..100 and never decrease
\* while the trim is active, and after a successful trim the value reported
\* last is 100.
C14_TrimProgress ==
  [][LET n == Len(trims)
     IN  n >= 1 /\ Len(trims') = n =>
           /\ trimProgress' \in 0..100
           /\ trims'[n].outcome = "active" => trimProgress' >= trimProgress
           /\ trims'[n].outcome = "done" => trimProgress' = 100]_vars

\* C15: exactly one object URL of the video element is live at any time,
\* the one the element shows: every earlier one, the first included, has
\* been revoked.
C15_OneLiveUrl == liveUrls.live = {video.src}

\* C16: when the recorder of a recording trim reports an error, the trim
\* fails: its stream's tracks are stopped, the dialog is closed and the
\* promise handleTrimConfirm awaits is rejected.
C16_ErrorFailsTrim ==
  [][\A s \in 1..Len(trims) :
       ~trims[s].errored /\ trims'[s].errored =>
         /\ trims'[s].outcome = "failed"
         /\ trims'[s].promise = "rejected"
         /\ ~trimDialogOpen'
         /\ trims'[s].tracksStopped]_vars

\* C17: when a render or trim fails, its progress is 0 and its active flag
\* is false, and they stay so until a new job is started.
C17_FailureResets ==
  [][/\ \A s \in Slots :
          jobs[s].toasts = 0 /\ jobs'[s].toasts = 1 =>
            renderProgress'.num = 0 /\ ~isRendering'
     /\ LET n == Len(trims')
        IN  n >= 1 /\ trims'[n].outcome = "failed" =>
              trimProgress' = 0 /\ ~isTrimming']_vars

\* C18: once a trim is done, no handler left over from it calls
\* stopRecording (which pauses the video and calls stop on its recorder).
C18_DoneIsTerminal ==
  [][\A s \in 1..Len(trims) :
       trims[s].outcome = "done" => trims'[s].stopCalls = trims[s].stopCalls]_vars

\* C19: while a trim is active (isTrimming) the trim dialog stays open.
C19_OpenWhileTrimming == isTrimming => trimDialogOpen

\* C20: at most one render job is active at any time: no two jobs have a
\* frame loop scheduled or a recorder recording.
C20_OneActiveJob ==
  Cardinality({s \in Slots : s \in Range(rafQueue) \/ jobs[s].recorder = "recording"}) <= 1

\* C21: a call of renderVideo with no images creates no render job and changes
\* no state: isRendering, renderProgress, every job (its canvas, recorder and
\* frames) and the animation frame queue are as they were before the call.
C21_EmptyRenderIsNoop ==
  [][(~lastCallEmpty /\ lastCallEmpty') =>
       UNCHANGED <<isRendering, renderProgress, jobs, rafQueue>>]_vars

\* renderVideo was called with no images before any render: nothing is
\* rendering and no job exists.
C21_Witness ==
  /\ lastCallEmpty
  /\ ~isRendering
  /\ renderProgress = Zero
  /\ \A s \in Slots : jobs[s] = FreeJob

\* The last frame a job drew is a transition frame.
InTransition(j) ==
  /\ Started(j)
  /\ j.frames[2] > 0
  /\ timeInCycle(j.frames[1]) >= 3 * imageDisplayTime

\* C22: in every fade transition frame image A is drawn at full opacity and
\* image B at the transition progress of the frame, whatever globalAlpha the
\* frame before left on the context.
C22_FadeOpacity ==
  \A s \in Slots :
    LET j == jobs[s]
    IN  InTransition(j) /\ j.transition = "fade" =>
          /\ Len(j.painted) = 3
          /\ j.painted[2].alpha = AlphaOne
          /\ j.painted[3].alpha = transitionProgress(j.frames[1])

\* The images a tick drew, in drawing order (the fillRect left out).
Drawn(j) == [i \in 1..Len(j.painted) - 1 |-> j.painted[i + 1].img]

\* C23: frame f of a render of N images lies in cycle c = f div 105; the first
\* 90 frames of a cycle draw images[c mod N] alone, the last 15 draw the
\* transition from imageA = images[c mod N] to imageB = images[(c+1) mod N]
\* (flip draws one of the two).
C23_FrameImages ==
  \A s \in Slots :
    LET j == jobs[s]
        f == j.frames[1]
        A == (f \div 105) % j.images
        B == (f \div 105 + 1) % j.images
    IN  Started(j) /\ j.frames[2] > 0 =>
          /\ j.painted[1].img = -1
          /\ IF f % 105 < 90 THEN Drawn(j) = <<A>>
             ELSE IF j.transition = "flip" THEN Drawn(j) \in {<<A>>, <<B>>}
             ELSE Drawn(j) = <<A, B>>

\* A render of three images in the transition of its last cycle, from the
\* third image back to the first.
C23_Witness ==
  \E s \in Slots :
    /\ Started(jobs[s])
    /\ jobs[s].images = 3
    /\ jobs[s].transition = "slide"
    /\ jobs[s].frames[1] = 305
    /\ Drawn(jobs[s]) = <<2, 0>>

\* C24: a render creates its recorder, draws its first frame and schedules a
\* tick only after every image has loaded; a job that failed on an image load
\* has no recorder and no frame, has reported the error once, and has reset
\* isRendering to false.
C24_LoadedBeforeFirstTick ==
  \A s \in Slots :
    LET j == jobs[s]
    IN  /\ (j.stream \/ j.recorder # "none" \/ j.frames[2] > 0 \/ s \in Range(rafQueue)) =>
             j.loaded = j.images
        /\ (j.pc = "loading") => j.loaded < j.images
        /\ (j.pc = "caught" /\ j.loaded < j.images) =>
             /\ ~j.stream /\ j.recorder = "none" /\ j.frames[2] = 0
             /\ j.toasts = 1
             /\ ~isRendering

\* A render of three images that drew its first frame when the third loaded.
C24_Witness ==
  \E s \in Slots :
    /\ Started(jobs[s])
    /\ jobs[s].images = 3
    /\ jobs[s].loaded = 3
    /\ jobs[s].recorder = "recording"
    /\ jobs[s].frames = <<0, 1>>

\* A render of three images that failed after two of them had loaded.
C24_FailedLoad ==
  \E s \in Slots :
    jobs[s].pc = "caught" /\ jobs[s].images = 3 /\ jobs[s].loaded = 2

\* The non-empty blobs of a delivery sequence, by index, in arrival order.
NonEmpty(blobs) == SelectSeq([i \in 1..Len(blobs) |-> i], LAMBDA i : blobs[i] > 0)

\* C25: what onstop assembles is the non-empty chunks the recorder delivered
\* during the job, each once and in arrival order, in a render (the blob and
\* the file handed to onVideoCreate) and in a trim.
C25_ChunksInOrder ==
  /\ \A s \in Slots :
       LET j == jobs[s]
       IN  /\ j.finalized >= 1 => j.blob = NonEmpty(j.blobs)
           /\ j.artifact.made => j.artifact.chunks = NonEmpty(j.blobs)
  /\ \A s \in 1..Len(trims) :
       trims[s].finalized >= 1 => trims[s].blob = NonEmpty(trims[s].blobs)

\* A render delivered a file made of two chunks that arrived one after the other.
C25_Witness ==
  \E s \in Slots :
    /\ jobs[s].blobs = <<1, 1>>
    /\ jobs[s].artifact.made
    /\ jobs[s].artifact.chunks = <<1, 2>>

\* A trim was finalized after an empty chunk and a non-empty one.
C25_TrimChunks ==
  \E s \in 1..Len(trims) :
    trims[s].finalized = 1 /\ trims[s].blobs = <<0, 1>> /\ trims[s].blob = <<2>>

\* The positions of the calls of operation x in a runtime's call sequence.
Calls(q, x) == {i \in 1..Len(q) : q[i] = x}

\* C26: a remux invokes exactly one exec on its runtime, after both writeFile
\* calls and before the one readFile.
C26_OneCommand ==
  \A s \in Slots :
    LET ops == jobs[s].ff.ops
    IN  jobs[s].ff # NoFFmpeg =>
          /\ Cardinality(Calls(ops, "exec")) <= 1
          /\ Cardinality(Calls(ops, "readFile")) <= 1
          /\ \A i \in Calls(ops, "exec") :
               Cardinality({w \in Calls(ops, "writeFile") : w < i}) = 2
          /\ \A i \in Calls(ops, "readFile") :
               Cardinality({x \in Calls(ops, "exec") : x < i}) = 1

\* C27: a flip transition frame draws exactly one image: image A while the
\* eased progress is below one half, image B mirrored from one half on.
C27_FlipDrawsOne ==
  \A s \in Slots :
    LET j == jobs[s]
        f == j.frames[1]
        A == (f \div 105) % j.images
        B == (f \div 105 + 1) % j.images
    IN  InTransition(j) /\ j.transition = "flip" =>
          /\ Len(j.painted) = 2
          /\ IF 2 * transitionProgress(f) < AlphaOne
             THEN j.painted[2].img = A /\ j.painted[2].via = "flip"
             ELSE j.painted[2].img = B /\ j.painted[2].via = "mirror"

\* A flip between two images in the second half of its transition: the second
\* image alone is drawn, mirrored.
C27_Witness ==
  \E s \in Slots :
    /\ InTransition(jobs[s])
    /\ jobs[s].transition = "flip"
    /\ jobs[s].images = 2
    /\ jobs[s].frames[1] = 98
    /\ Drawn(jobs[s]) = <<1>>
    /\ jobs[s].painted[2].via = "mirror"

\* C28: the raw progress of every transition frame is at least 0 and below 1,
\* and the last frame of a render (the one drawn before stop is called) is the
\* last transition frame of the last cycle, from images[N-1] toward images[0],
\* not a display frame.
C28_ProgressBelowOne ==
  \A s \in Slots :
    LET j == jobs[s]
        f == j.frames[1]
        N == j.images
    IN  /\ InTransition(j) =>
             /\ rawProgress(f) >= 0
             /\ rawProgress(f) < transitionFrames
        /\ (Started(j) /\ j.stopCalls >= 1) =>
             /\ f = 105 * N - 1
             /\ f % 105 >= 90
             /\ InTransition(j)
             /\ Len(j.painted) >= 2
             /\ \A i \in 1..Len(Drawn(j)) : Drawn(j)[i] \in {N - 1, 0}
             /\ j.transition # "flip" => Drawn(j) = <<N - 1, 0>>

\* A render of three images called stop after frame 314, a zoom from the third
\* image toward the first at raw progress 14/15.
C28_Witness ==
  \E s \in Slots :
    /\ Started(jobs[s])
    /\ jobs[s].stopCalls = 1
    /\ jobs[s].images = 3
    /\ jobs[s].transition = "zoom"
    /\ jobs[s].frames[1] = 314
    /\ rawProgress(314) = transitionFrames - 1
    /\ Drawn(jobs[s]) = <<2, 0>>

====
